---- MODULE Spec2Model ----
(***************************************************************************)
(* Model of the semantic question-answer cache of SyriaGPT:                *)
(* IntelligentQAService.process_question and the collaborators it calls    *)
(* (EmbeddingService, QdrantService, GeminiService, the Q&A repository).   *)
(*                                                                         *)
(* services/ai/intelligent_qa_service.py carries unresolved merge markers. *)
(* The model follows the HEAD side of every conflict: it is the side with  *)
(* the PostgreSQL lookup, the web context, the salvage fallback and the    *)
(* variant storage.                                                        *)
(*                                                                         *)
(* Similarity scores are in hundredths (0.85 is 85).  Text is a sequence   *)
(* of characters, each character a one-token string.                       *)
(***************************************************************************)
EXTENDS Integers, Sequences, FiniteSets, TLC

VARIABLES
    pc,                   \* position of the request inside process_question
    question,             \* raw input of the request
    normalized_question,  \* output of _normalize_question
    question_embedding,   \* "vector" or None
    scoring,              \* cosine score of every index entry against the query
    similar_qa_pairs,     \* result of search_similar_questions
    qa_pair,              \* result of the repository lookup on the cache-hit path
    web_context,          \* result of get_content_for_context
    provider,             \* behaviour of the completion provider in this request
    gemini_response,      \* result of gemini_service.answer_question
    processing_steps,     \* ordered log of stage names
    result,               \* value returned by process_question
    calls,                \* collaborator invocations made by the request
    store,                \* Durable Q&A Store: set of QARecords
    index,                \* Vector Similarity Index: set of EmbeddingEntries
    initialized,          \* IntelligentQAService._initialized
    model_available,      \* EmbeddingService.model_available
    gemini_connected,     \* GeminiService.is_connected()
    requests,             \* requests started so far
    norm_pc,              \* normalizer: stage
    norm_in,              \* normalizer: input text
    norm_once,            \* normalizer: normalize(input)
    norm_twice,           \* normalizer: normalize(normalize(input))
    variant_pc,           \* variants: stage
    variant_provider,     \* variants: "not_connected", "raise" or "text"
    response_text,        \* variants: lines of the provider's response
    starts_with,          \* variants: prefix the question starts with, 0 for none
    variants,             \* variants: result of generate_question_variants
    embedded_variants,    \* variants: texts passed to generate_embedding
    written_variants,     \* variants: texts passed to store_qa_embedding
    sort_pc,              \* top match: stage
    search_result,        \* top match: hits in the order client.search returned them
    results,              \* top match: list built by search_similar_questions
    top_match,            \* top match: similar_qa_pairs[0]
    quota_pc,             \* quota probe: stage
    probe_connected,      \* quota probe: GeminiService.is_connected()
    probe_outcome,        \* quota probe: outcome of the provider call
    error_str,            \* quota probe: words of str(e) when the provider call raises
    test_response,        \* quota probe: result of answer_question
    quota_status,         \* quota probe: status returned by check_gemini_quota
    payload_pc,           \* payload: stage
    metadata_given,       \* payload: FALSE when the caller passes metadata=None
    provided,             \* payload: the caller's dictionary as it was at the call
    metadata,             \* payload: the caller's dictionary now
    arg_qa_id,            \* payload: argument qa_id
    arg_question,         \* payload: argument question
    guards_pass,          \* payload: client connected and embedding a list of numbers
    stored_payload,       \* payload: payload of the point handed to client.upsert
    returned,             \* payload: value returned by store_qa_embedding
    embed_pc,             \* embedding: stage
    embed_available,      \* embedding: model_available
    text_given,           \* embedding: FALSE for an empty text
    embed_plan,           \* embedding: outcome of the k-th call of the embedding API
    attempt,              \* embedding: loop variable of the retry loop
    embed_calls,          \* embedding: calls of the embedding API made
    embedding_data,       \* embedding: value returned, with the call that gave it
    init_status,          \* startup: state["status"]
    start_time,           \* startup: state["start_time"], the number of the start
    overall_progress,     \* startup: state["overall_progress"]
    components,           \* startup: status of each component in state["components"]
    init_error,           \* startup: state["error"]
    tasks,                \* startup: stage of every initialization task not yet done
    last_op,              \* startup: the operation that ran last
    restart_returned,     \* startup: value returned by the last restart_initialization
    user_sessions,        \* sessions: the rows of table user_sessions
    utcnow,               \* sessions: the clock
    revoked_once,         \* sessions: rows on which revoke_session has run
    session_op,           \* sessions: the operation that ran last
    lookup_token,         \* sessions: token given to the last operation
    returned_session,     \* sessions: row returned by the last get_session_by_token
    accounts,             \* reset: the rows of table users
    reset_clock,          \* reset: the clock, in hours
    issued,               \* reset: the tokens sent by e-mail so far
    reset_op,             \* reset: the operation that ran last
    presented,            \* reset: token given to the last operation
    password_given,       \* reset: new password given to the last operation
    reset_outcome         \* reset: what the last operation returned or raised

vars == <<pc, question, normalized_question, question_embedding, scoring,
          similar_qa_pairs, qa_pair, web_context, provider, gemini_response,
          processing_steps, result, calls, store, index, initialized,
          model_available, gemini_connected, requests, norm_pc, norm_in,
          norm_once, norm_twice, variant_pc, variant_provider, response_text,
          starts_with, variants, embedded_variants, written_variants,
          sort_pc, search_result, results, top_match, quota_pc,
          probe_connected, probe_outcome, error_str, test_response,
          quota_status, payload_pc, metadata_given, provided, metadata,
          arg_qa_id, arg_question, guards_pass, stored_payload, returned,
          embed_pc, embed_available, text_given, embed_plan, attempt,
          embed_calls, embedding_data, init_status, start_time,
          overall_progress, components, init_error, tasks, last_op,
          restart_returned, user_sessions, utcnow, revoked_once, session_op,
          lookup_token, returned_session, accounts, reset_clock, issued,
          reset_op, presented, password_given, reset_outcome>>

request_vars == <<pc, question, normalized_question, question_embedding,
                  scoring, similar_qa_pairs, qa_pair, web_context, provider,
                  gemini_response, processing_steps, result, calls, store,
                  index, initialized, model_available, gemini_connected,
                  requests>>

norm_vars == <<norm_pc, norm_in, norm_once, norm_twice>>

variant_vars == <<variant_pc, variant_provider, response_text, starts_with,
                  variants, embedded_variants, written_variants>>

sort_vars == <<sort_pc, search_result, results, top_match>>

quota_vars == <<quota_pc, probe_connected, probe_outcome, error_str,
                test_response, quota_status>>

payload_vars == <<payload_pc, metadata_given, provided, metadata, arg_qa_id,
                  arg_question, guards_pass, stored_payload, returned>>

embed_vars == <<embed_pc, embed_available, text_given, embed_plan, attempt,
                embed_calls, embedding_data>>

init_vars == <<init_status, start_time, overall_progress, components,
               init_error, tasks, last_op, restart_returned>>

session_vars == <<user_sessions, utcnow, revoked_once, session_op,
                  lookup_token, returned_session>>

reset_vars == <<accounts, reset_clock, issued, reset_op, presented,
                password_given, reset_outcome>>

study_vars == <<norm_vars, variant_vars, sort_vars, quota_vars, payload_vars,
                embed_vars, init_vars, session_vars, reset_vars>>

norm_rest == <<request_vars, variant_vars, sort_vars, quota_vars,
               payload_vars, embed_vars, init_vars, session_vars, reset_vars>>

variant_rest == <<request_vars, norm_vars, sort_vars, quota_vars,
                  payload_vars, embed_vars, init_vars, session_vars,
                  reset_vars>>

sort_rest == <<request_vars, norm_vars, variant_vars, quota_vars,
               payload_vars, embed_vars, init_vars, session_vars, reset_vars>>

quota_rest == <<request_vars, norm_vars, variant_vars, sort_vars,
                payload_vars, embed_vars, init_vars, session_vars,
                reset_vars>>

payload_rest == <<request_vars, norm_vars, variant_vars, sort_vars,
                  quota_vars, embed_vars, init_vars, session_vars,
                  reset_vars>>

embed_rest == <<request_vars, norm_vars, variant_vars, sort_vars, quota_vars,
                payload_vars, init_vars, session_vars, reset_vars>>

init_rest == <<request_vars, norm_vars, variant_vars, sort_vars, quota_vars,
               payload_vars, embed_vars, session_vars, reset_vars>>

session_rest == <<request_vars, norm_vars, variant_vars, sort_vars,
                  quota_vars, payload_vars, embed_vars, init_vars,
                  reset_vars>>

reset_rest == <<request_vars, norm_vars, variant_vars, sort_vars, quota_vars,
                payload_vars, embed_vars, init_vars, session_vars>>

-----------------------------------------------------------------------------
(* Bounds *)

MaxRequests == 2
MaxLen == 3
MaxLines == 3
MaxHits == 3
MaxCalls == 4
MaxStarts == 5
MaxTasks == 2
MaxTime == 2
MaxFailedLogins == 1

(* Program constants *)

semantic_search_threshold == 85
quality_threshold == 95
salvage_threshold == 30
search_limit == 5
max_retries == 3
max_variants_to_generate == 5

None == "None"

-----------------------------------------------------------------------------
(* Text *)

Whitespace == {"SP", "TAB"}
Terminal == {"QM", "AQM", "DOT"}
ArabicLetters == {"AR"}
Chars == Whitespace \cup Terminal \cup ArabicLetters \cup {"a"}

RECURSIVE lstrip(_)
lstrip(s) ==
    IF s # <<>> /\ Head(s) \in Whitespace THEN lstrip(Tail(s)) ELSE s

RECURSIVE rstrip(_)
rstrip(s) ==
    IF s # <<>> /\ s[Len(s)] \in Whitespace
    THEN rstrip(SubSeq(s, 1, Len(s) - 1))
    ELSE s

strip(s) == rstrip(lstrip(s))

\* re.sub(r"\s+", " ", s): every maximal whitespace run becomes one space
RECURSIVE collapse_whitespace(_)
collapse_whitespace(s) ==
    IF s = <<>> THEN <<>>
    ELSE IF Head(s) \in Whitespace
         THEN <<"SP">> \o collapse_whitespace(lstrip(s))
         ELSE <<Head(s)>> \o collapse_whitespace(Tail(s))

endswith_terminal(s) == s # <<>> /\ s[Len(s)] \in Terminal

is_ar(s) == \E i \in 1..Len(s) : s[i] \in ArabicLetters

normalize_question_always_append(q) ==
    LET normalized == collapse_whitespace(strip(q))
    IN  normalized \o <<IF is_ar(normalized) THEN "AQM" ELSE "QM">>

normalize_question(q) ==
    LET normalized == collapse_whitespace(strip(q))
    IN  IF ~endswith_terminal(normalized)
        THEN normalized \o <<IF is_ar(normalized) THEN "AQM" ELSE "QM">>
        ELSE normalized

RECURSIVE TextsUpTo(_)
TextsUpTo(n) ==
    IF n = 0 THEN {<<>>}
    ELSE LET shorter == TextsUpTo(n - 1)
         IN  shorter \cup {Append(t, c) : t \in {u \in shorter : Len(u) = n - 1}, c \in Chars}

-----------------------------------------------------------------------------
(* Data *)

Scores == {60, 85, 94, 95}

\* EmbeddingEntries of the curated knowledge base; the payload carries a
\* denormalized copy of the answer
KnowledgeBase ==
    {[qa_id |-> "q1", answer |-> "payload_q1", is_variant |-> FALSE],
     [qa_id |-> "q2", answer |-> "payload_q2", is_variant |-> FALSE]}

\* QARecords that a curation process may have put into the store
CuratedRecords ==
    {[qa_id |-> "q1", answer_text |-> "stored_q1"],
     [qa_id |-> "q2", answer_text |-> "stored_q2"]}

NoRecord == [state |-> None, qa_id |-> None, answer_text |-> None]
UnsetRecord == [state |-> "unset", qa_id |-> None, answer_text |-> None]
RaisedRecord == [state |-> "raise", qa_id |-> None, answer_text |-> None]

RawQuestions == {<<"a">>, <<"SP", "a", "QM">>, <<"SP">>, <<>>}

NoCalls ==
    [embed_api |-> 0, search |-> 0, lookup |-> 0, web |-> 0, answer |-> 0,
     variant |-> 0, variant_embed |-> 0, store_write |-> 0, index_write |-> 0,
     variant_write |-> 0]

ComponentNames == {"knowledge_base", "qdrant", "embedding_service", "gemini_service"}

\* components of initialization_state, all pending
PendingComponents == [c \in ComponentNames |-> "pending"]

\* no row of user_sessions; a NULL timestamp
NoSession == 0
NoTime == -1

\* a NULL password_reset_token; a string that is no token of this service
NoToken == [sub |-> 0, type |-> "null", exp |-> 0]
Garbage == [sub |-> 0, type |-> "garbage", exp |-> 0]

\* no password given
NoPassword == [length |-> 0, classes |-> {}]

NoEmbedding == [vector |-> "unset", call |-> 0]

\* the dictionary {}
EmptyDict == [k \in {} |-> None]

NoAnswer == [response |-> None, api_calls |-> 0, raised |-> FALSE]

NoMatch == [qa_id |-> None, similarity_score |-> 0]

NoResult ==
    [status |-> "none", answer |-> None, source |-> None, reason |-> None,
     confidence |-> 0]

-----------------------------------------------------------------------------
(* IntelligentQAService._format_response / _format_error *)

format_response(answer, source, confidence) ==
    [status |-> "success", answer |-> answer, source |-> source,
     reason |-> None, confidence |-> confidence]

format_error(reason) ==
    [status |-> "error", answer |-> None, source |-> "error",
     reason |-> reason, confidence |-> 0]

-----------------------------------------------------------------------------
(* EmbeddingService.generate_embedding *)

EmbeddingOutcomes == {"ok", "exc", "empty", "bad"}
EmbeddingPlans == [1..max_retries -> EmbeddingOutcomes]

\* the call returned a result from which _extract_embedding_data gets data
embedding_extracted(outcome) == outcome = "ok"

retry_allowed_always(k) == TRUE

\* if attempt < max_retries - 1: sleep and continue
retry_allowed(k) == k < max_retries - 1

RECURSIVE embed_attempt(_, _)
embed_attempt(plan, k) ==
    IF embedding_extracted(plan[k + 1])
    THEN [vector |-> "vector", api_calls |-> k + 1]
    ELSE IF retry_allowed(k)
         THEN embed_attempt(plan, k + 1)
         ELSE [vector |-> None, api_calls |-> k + 1]

generate_embedding(available, text, plan) ==
    IF ~available THEN [vector |-> "vector", api_calls |-> 0]
    ELSE IF text = <<>> THEN [vector |-> None, api_calls |-> 0]
    ELSE embed_attempt(plan, 0)

-----------------------------------------------------------------------------
(* QdrantService.search_similar_questions *)

Hit(e, sc) ==
    [qa_id |-> e.qa_id, answer |-> e.answer, is_variant |-> e.is_variant,
     similarity_score |-> sc[e]]

Min(a, b) == IF a < b THEN a ELSE b

\* client.search: the nearest entries with score >= score_threshold, at most
\* limit of them, by descending score (ties in any order)
qdrant_client_search(sc, limit, score_threshold) ==
    LET qualifying == {e \in DOMAIN sc : sc[e] >= score_threshold}
        n == Min(limit, Cardinality(qualifying))
    IN  {s \in [1..n -> qualifying] :
            /\ \A i, j \in 1..n : i < j => s[i] # s[j] /\ sc[s[i]] >= sc[s[j]]
            /\ \A e \in qualifying :
                  (\A i \in 1..n : s[i] # e) => \A i \in 1..n : sc[s[i]] >= sc[e]}

search_similar_questions_unfiltered(qdrant_ok, query_embedding, sc, limit, score_threshold) ==
    IF ~qdrant_ok \/ query_embedding = None THEN {<<>>}
    ELSE {[i \in DOMAIN s |-> Hit(s[i], sc)] : s \in qdrant_client_search(sc, limit, 0)}

search_similar_questions(qdrant_ok, query_embedding, sc, limit, score_threshold) ==
    IF ~qdrant_ok \/ query_embedding = None THEN {<<>>}
    ELSE {[i \in DOMAIN s |-> Hit(s[i], sc)] :
             s \in qdrant_client_search(sc, limit, score_threshold)}

\* QdrantService.store_qa_embedding(self, qa_id, question, embedding, metadata)
store_qa_embedding_parameters == {"qa_id", "question", "embedding", "metadata"}

\* the keyword arguments the Q&A service passes at both of its call sites
store_qa_embedding_keywords == {"qa_id", "question", "answer", "embedding", "metadata"}

call_accepts_any_keyword(keywords, parameters) == FALSE

\* a keyword the callee does not declare raises TypeError before its body runs
call_raises_TypeError(keywords, parameters) == ~(keywords \subseteq parameters)

-----------------------------------------------------------------------------
(* Q&A repository (services.repositories.qa_pair_repository): the Durable   *)
(* Q&A Store, getById(id) -> QARecord | NotFound and create(...)           *)

get_qa_pair_by_question_id(st, qa_id) ==
    IF \E r \in st : r.qa_id = qa_id
    THEN LET r == CHOOSE r \in st : r.qa_id = qa_id
         IN  [state |-> "record", qa_id |-> r.qa_id, answer_text |-> r.answer_text]
    ELSE NoRecord

create_qa_pair(st, qa_id, answer) ==
    st \cup {[qa_id |-> qa_id, answer_text |-> answer]}

-----------------------------------------------------------------------------
(* GeminiService.answer_question *)

\* "short" is a text of fewer than 10 characters, "refusal" a text that is
\* only an apology
ProviderOutcomes ==
    {"ok", "timeout", "empty", "rate_limited", "unauthorized", "short", "refusal"}
Transient == {"timeout", "empty"}

\* behaviours of the completion provider: the outcome of its k-th call is
\* plan[k], the last outcome repeating
ProviderBehaviours ==
    {<<"ok">>, <<"timeout">>, <<"empty">>, <<"rate_limited">>, <<"unauthorized">>,
     <<"timeout", "ok">>, <<"timeout", "empty", "ok">>,
     <<"short", "ok">>, <<"refusal", "ok">>}

ProviderOutcome(plan, k) == plan[Min(k, Len(plan))]

RECURSIVE answer_attempts(_, _)
answer_attempts(plan, k) ==
    IF ProviderOutcome(plan, k) = "ok"
    THEN [response |-> "answer", api_calls |-> k, raised |-> FALSE]
    ELSE IF k < 3 THEN answer_attempts(plan, k + 1)
         ELSE [response |-> None, api_calls |-> k, raised |-> FALSE]

answer_question_retrying(connected, plan) ==
    IF ~connected THEN [response |-> None, api_calls |-> 0, raised |-> FALSE]
    ELSE answer_attempts(plan, 1)

\* _process_response: a text of at least 10 characters that shares words with
\* the question is accepted; nothing looks for an apology
accepted_by_process_response == {"ok", "refusal"}

\* one generate_content call; an empty response, a response _process_response
\* rejects and every exception give None
answer_question(connected, plan) ==
    IF ~connected THEN [response |-> None, api_calls |-> 0, raised |-> FALSE]
    ELSE IF ProviderOutcome(plan, 1) \in accepted_by_process_response
         THEN [response |-> "answer", api_calls |-> 1, raised |-> FALSE]
         ELSE [response |-> None, api_calls |-> 1, raised |-> FALSE]

-----------------------------------------------------------------------------
(* IntelligentQAService.initialize_system / ensure_initialized *)

\* keys of the dict returned by QdrantService.get_collection_stats
collection_stats_keys ==
    {"status", "points_count", "vectors_count", "indexed_vectors_count",
     "payload_schema", "message"}

\* public methods of EmbeddingService
embedding_service_methods == {"generate_embedding", "is_available", "test_connection"}

initialize_system_always_succeeds == TRUE

\* core services (qdrant, embedding) healthy: qdrant needs the key "connected"
\* in its stats, embedding needs get_system_health to exist
initialize_system_succeeds ==
    /\ "connected" \in collection_stats_keys
    /\ "get_system_health" \in embedding_service_methods

ensure_initialized(is_initialized) ==
    IF ~is_initialized THEN initialize_system_succeeds ELSE is_initialized

-----------------------------------------------------------------------------
(* The state of the request and of each component while it is not running *)

RequestIdle ==
    /\ pc = "idle"
    /\ question = <<>>
    /\ normalized_question = <<>>
    /\ question_embedding = None
    /\ scoring = <<>>
    /\ similar_qa_pairs = <<>>
    /\ qa_pair = UnsetRecord
    /\ web_context = "unset"
    /\ provider = <<>>
    /\ gemini_response = "unset"
    /\ processing_steps = <<>>
    /\ result = NoResult
    /\ calls = NoCalls
    /\ initialized = FALSE
    /\ requests = 0

RequestOff ==
    /\ RequestIdle
    /\ store = {}
    /\ index = {}
    /\ model_available = FALSE
    /\ gemini_connected = FALSE

NormOff ==
    /\ norm_pc = "off"
    /\ norm_in = <<>>
    /\ norm_once = <<>>
    /\ norm_twice = <<>>

VariantOff ==
    /\ variant_pc = "off"
    /\ variant_provider = "not_connected"
    /\ response_text = <<>>
    /\ starts_with = 0
    /\ variants = <<>>
    /\ embedded_variants = <<>>
    /\ written_variants = <<>>

SortOff ==
    /\ sort_pc = "off"
    /\ search_result = <<>>
    /\ results = <<>>
    /\ top_match = NoMatch

QuotaOff ==
    /\ quota_pc = "off"
    /\ probe_connected = FALSE
    /\ probe_outcome = "ok"
    /\ error_str = {}
    /\ test_response = NoAnswer
    /\ quota_status = None

PayloadOff ==
    /\ payload_pc = "off"
    /\ metadata_given = FALSE
    /\ provided = EmptyDict
    /\ metadata = EmptyDict
    /\ arg_qa_id = "a"
    /\ arg_question = "a"
    /\ guards_pass = FALSE
    /\ stored_payload = EmptyDict
    /\ returned = None

EmbedOff ==
    /\ embed_pc = "off"
    /\ embed_available = FALSE
    /\ text_given = FALSE
    /\ embed_plan = <<>>
    /\ attempt = 0
    /\ embed_calls = 0
    /\ embedding_data = NoEmbedding

ManagerOff ==
    /\ init_status = "off"
    /\ start_time = 0
    /\ overall_progress = 0
    /\ components = PendingComponents
    /\ init_error = None
    /\ tasks = <<>>
    /\ last_op = "none"
    /\ restart_returned = None

SessionOff ==
    /\ user_sessions = <<>>
    /\ utcnow = 0
    /\ revoked_once = {}
    /\ session_op = "none"
    /\ lookup_token = None
    /\ returned_session = NoSession

ResetOff ==
    /\ accounts = <<>>
    /\ reset_clock = 0
    /\ issued = {}
    /\ reset_op = "none"
    /\ presented = NoToken
    /\ password_given = NoPassword
    /\ reset_outcome = "none"

StudiesOff ==
    /\ NormOff
    /\ VariantOff
    /\ SortOff
    /\ QuotaOff
    /\ PayloadOff
    /\ EmbedOff
    /\ ManagerOff
    /\ SessionOff
    /\ ResetOff

NormRestOff ==
    /\ RequestOff
    /\ VariantOff
    /\ SortOff
    /\ QuotaOff
    /\ PayloadOff
    /\ EmbedOff
    /\ ManagerOff
    /\ SessionOff
    /\ ResetOff

VariantRestOff ==
    /\ RequestOff
    /\ NormOff
    /\ SortOff
    /\ QuotaOff
    /\ PayloadOff
    /\ EmbedOff
    /\ ManagerOff
    /\ SessionOff
    /\ ResetOff

SortRestOff ==
    /\ RequestOff
    /\ NormOff
    /\ VariantOff
    /\ QuotaOff
    /\ PayloadOff
    /\ EmbedOff
    /\ ManagerOff
    /\ SessionOff
    /\ ResetOff

QuotaRestOff ==
    /\ RequestOff
    /\ NormOff
    /\ VariantOff
    /\ SortOff
    /\ PayloadOff
    /\ EmbedOff
    /\ ManagerOff
    /\ SessionOff
    /\ ResetOff

PayloadRestOff ==
    /\ RequestOff
    /\ NormOff
    /\ VariantOff
    /\ SortOff
    /\ QuotaOff
    /\ EmbedOff
    /\ ManagerOff
    /\ SessionOff
    /\ ResetOff

EmbedRestOff ==
    /\ RequestOff
    /\ NormOff
    /\ VariantOff
    /\ SortOff
    /\ QuotaOff
    /\ PayloadOff
    /\ ManagerOff
    /\ SessionOff
    /\ ResetOff

ManagerRestOff ==
    /\ RequestOff
    /\ NormOff
    /\ VariantOff
    /\ SortOff
    /\ QuotaOff
    /\ PayloadOff
    /\ EmbedOff
    /\ SessionOff
    /\ ResetOff

SessionRestOff ==
    /\ RequestOff
    /\ NormOff
    /\ VariantOff
    /\ SortOff
    /\ QuotaOff
    /\ PayloadOff
    /\ EmbedOff
    /\ ManagerOff
    /\ ResetOff

ResetRestOff ==
    /\ RequestOff
    /\ NormOff
    /\ VariantOff
    /\ SortOff
    /\ QuotaOff
    /\ PayloadOff
    /\ EmbedOff
    /\ ManagerOff
    /\ SessionOff

-----------------------------------------------------------------------------
(* IntelligentQAService.process_question, by stage *)

embedding_failed_never(embedding) == FALSE

\* if not question_embedding
embedding_failed(embedding) == embedding = None

is_high_quality_above_search_threshold(best_match) ==
    best_match.similarity_score >= semantic_search_threshold

\* best_match.get("similarity_score", 0.0) >= self.quality_threshold
is_high_quality(best_match) ==
    best_match.similarity_score >= quality_threshold

lookup_is_hit_unchecked(record) == TRUE

\* if qa_pair
lookup_is_hit(record) == record.state = "record"

cache_hit_answer_from_payload(best_match, record) == best_match.answer

\* answer=qa_pair.answer_text
cache_hit_answer(best_match, record) == record.answer_text

\* _extract_confidence: 0.8, plus 0.1 with a context
extract_confidence(context) == IF context # None THEN 90 ELSE 80

NewQaId(n) == "qa_" \o ToString(n)

\* membership test on processing_steps
HasStep(step) == \E i \in 1..Len(processing_steps) : processing_steps[i] = step

Finish(res) ==
    /\ result' = res
    /\ pc' = "done"

InternalErrorPropagates ==
    /\ result' = NoResult
    /\ pc' = "raised"

\* except Exception at the end of process_question
InternalError == Finish(format_error("internal_error"))

\* steps 0 and 1: ensure_initialized, then _normalize_question
Start(q) ==
    /\ pc \in {"idle", "done"}
    /\ requests < MaxRequests
    /\ requests' = requests + 1
    /\ initialized' = ensure_initialized(initialized)
    /\ question' = q
    /\ normalized_question' = normalize_question(q)
    /\ processing_steps' = <<"input_normalized">>
    /\ question_embedding' = None
    /\ scoring' = <<>>
    /\ similar_qa_pairs' = <<>>
    /\ qa_pair' = UnsetRecord
    /\ web_context' = "unset"
    /\ provider' = <<>>
    /\ gemini_response' = "unset"
    /\ result' = NoResult
    /\ calls' = NoCalls
    /\ pc' = "embedding"
    /\ UNCHANGED <<store, index, model_available, gemini_connected, study_vars>>

\* step 2: embedding of the normalized question
Embed ==
    /\ pc = "embedding"
    /\ \E plan \in EmbeddingPlans :
         LET r == generate_embedding(model_available, normalized_question, plan)
         IN  /\ question_embedding' = r.vector
             /\ calls' = [calls EXCEPT !.embed_api = @ + r.api_calls]
             /\ IF embedding_failed(r.vector)
                THEN /\ Finish(format_error("embedding_failure"))
                     /\ UNCHANGED processing_steps
                ELSE /\ processing_steps' = Append(processing_steps, "embedding_generated")
                     /\ pc' = "search"
                     /\ UNCHANGED result
    /\ UNCHANGED <<question, normalized_question, scoring, similar_qa_pairs,
                   qa_pair, web_context, provider, gemini_response, store, index,
                   initialized, model_available, gemini_connected, requests,
                   study_vars>>

\* step 3: semantic search in Qdrant
Search ==
    /\ pc = "search"
    /\ \E sc \in [index -> Scores], qdrant_ok \in BOOLEAN :
         /\ scoring' = sc
         /\ similar_qa_pairs' \in
                search_similar_questions(qdrant_ok, question_embedding, sc,
                                         search_limit, semantic_search_threshold)
    /\ calls' = [calls EXCEPT !.search = @ + 1]
    /\ pc' = "decide"
    /\ UNCHANGED <<question, normalized_question, question_embedding, qa_pair,
                   web_context, provider, gemini_response, processing_steps,
                   result, store, index, initialized, model_available,
                   gemini_connected, requests, study_vars>>

\* the threshold decision and the lookup of the stored answer
Decide ==
    /\ pc = "decide"
    /\ IF similar_qa_pairs # <<>> /\ is_high_quality(similar_qa_pairs[1])
       THEN \E db_ok \in BOOLEAN :
              LET best_match == similar_qa_pairs[1]
                  record == IF db_ok
                            THEN get_qa_pair_by_question_id(store, best_match.qa_id)
                            ELSE RaisedRecord
              IN  /\ qa_pair' = record
                  /\ calls' = [calls EXCEPT !.lookup = @ + 1]
                  /\ IF record.state = "raise"
                     THEN /\ InternalError
                          /\ processing_steps' =
                                 Append(processing_steps, "semantic_search_hit")
                     ELSE IF lookup_is_hit(record)
                     THEN /\ processing_steps' =
                                 Append(processing_steps, "semantic_search_hit")
                          /\ IF record.state = "record"
                             THEN Finish(format_response(
                                      cache_hit_answer(best_match, record),
                                      "vector_search",
                                      best_match.similarity_score))
                             ELSE InternalError  \* attribute access on None
                     ELSE /\ processing_steps' =
                                 processing_steps \o
                                 <<"semantic_search_hit",
                                   "semantic_search_miss_or_low_quality">>
                          /\ pc' = "web_context"
                          /\ UNCHANGED result
       ELSE /\ processing_steps' =
                   (IF similar_qa_pairs # <<>>
                    THEN Append(processing_steps, "semantic_search_hit")
                    ELSE processing_steps)
                   \o <<"semantic_search_miss_or_low_quality">>
            /\ pc' = "web_context"
            /\ UNCHANGED <<qa_pair, calls, result>>
    /\ UNCHANGED <<question, normalized_question, question_embedding, scoring,
                   similar_qa_pairs, web_context, provider, gemini_response,
                   store, index, initialized, model_available, gemini_connected,
                   requests, study_vars>>

\* Context Enrichment, fetch(query) -> text | None, or an exception.  The
\* WebScrapingService class of web_scraping_service.py defines no method
\* get_content_for_context: with that class the call raises AttributeError,
\* which is the outcome "raise".
get_content_for_context_outcomes == {"text", None, "raise"}

\* step 4: web_scraping_service.get_content_for_context, awaited unguarded
WebContext ==
    /\ pc = "web_context"
    /\ \E fetched \in get_content_for_context_outcomes :
         /\ web_context' = fetched
         /\ IF fetched = "raise"
            THEN /\ InternalError
                 /\ UNCHANGED processing_steps
            ELSE /\ processing_steps' = Append(processing_steps, "web_content_fetched")
                 /\ pc' = "generate"
                 /\ UNCHANGED result
    /\ calls' = [calls EXCEPT !.web = @ + 1]
    /\ UNCHANGED <<question, normalized_question, question_embedding, scoring,
                   similar_qa_pairs, qa_pair, provider, gemini_response, store,
                   index, initialized, model_available, gemini_connected,
                   requests, study_vars>>

\* step 5: answer generation, with the salvage fallback of its except branch
Generate ==
    /\ pc = "generate"
    /\ \E plan \in ProviderBehaviours, db_ok \in BOOLEAN :
         LET r == answer_question(gemini_connected, plan)
         IN  /\ provider' = plan
             /\ IF r.raised
                THEN LET salvage ==
                             /\ similar_qa_pairs # <<>>
                             /\ similar_qa_pairs[1].similarity_score >= salvage_threshold
                         record ==
                             IF ~salvage THEN UnsetRecord
                             ELSE IF db_ok
                             THEN get_qa_pair_by_question_id(store, similar_qa_pairs[1].qa_id)
                             ELSE RaisedRecord
                     IN  /\ processing_steps' = Append(processing_steps, "gemini_api_failed")
                         /\ calls' = [calls EXCEPT !.answer = @ + r.api_calls,
                                                   !.lookup = @ + (IF salvage THEN 1 ELSE 0)]
                         /\ qa_pair' = IF salvage THEN record ELSE qa_pair
                         /\ UNCHANGED gemini_response
                         /\ IF record.state = "raise" THEN InternalError
                            ELSE IF record.state = "record"
                            THEN Finish(format_response(
                                     record.answer_text, "vector_search_fallback",
                                     similar_qa_pairs[1].similarity_score))
                            ELSE Finish(format_error("generation_failure"))
                ELSE /\ processing_steps' = Append(processing_steps, "gemini_api_success")
                     /\ calls' = [calls EXCEPT !.answer = @ + r.api_calls]
                     /\ gemini_response' = r.response
                     /\ pc' = "store"
                     /\ UNCHANGED <<qa_pair, result>>
    /\ UNCHANGED <<question, normalized_question, question_embedding, scoring,
                   similar_qa_pairs, web_context, store, index, initialized,
                   model_available, gemini_connected, requests, study_vars>>

index_write_reached_always(created) == created # "raise"

\* if not qa_pair: return False -- the index write is reached with a record only
index_write_reached(created) == created = "record"

store_new_qa_pair_reraises == "raise"

\* _store_new_qa_pair: except Exception: return False
store_new_qa_pair_except == "return_false"

\* qa_id=f"variant_{abs(hash(variant))}_{int(time.time())}"
VariantQaId(n, i) == "variant_" \o ToString(n) \o "_" \o ToString(i)

\* the arguments of the store_qa_embedding calls of the variant loop
variant_write_requests(n, written) ==
    {[qa_id |-> VariantQaId(n, i), is_variant |-> TRUE] : i \in 1..written}

response_after_generation_checks_storage(answer, context, storage_success) ==
    IF storage_success
    THEN format_response(answer, "gemini_api", extract_confidence(context))
    ELSE format_error("storage_failure")

\* step 8: the response is built from gemini_response["answer"]; storage_success
\* only chose the processing step appended before
response_after_generation(answer, context, storage_success) ==
    format_response(answer, "gemini_api", extract_confidence(context))

\* step 6: _store_new_qa_pair up to its await: the arguments subscript
\* gemini_response, then qa_pair_repository.create_qa_pair
StoreNewQaPair ==
    /\ pc = "store"
    /\ IF gemini_response = None
       THEN /\ InternalError  \* TypeError: None is not subscriptable
            /\ UNCHANGED <<processing_steps, calls, store>>
       ELSE \E created \in {"record", None, "raise"} :
              /\ store' = IF created = "record"
                          THEN create_qa_pair(store, NewQaId(requests), "generated_answer")
                          ELSE store
              /\ calls' = [calls EXCEPT !.store_write = @ + 1]
              /\ UNCHANGED result
              /\ IF index_write_reached(created)
                 THEN /\ pc' = "store_index"
                      /\ UNCHANGED processing_steps
                 ELSE /\ processing_steps' = Append(processing_steps, "storage_failed")
                      /\ pc' = "variants"
    /\ UNCHANGED <<question, normalized_question, question_embedding, scoring,
                   similar_qa_pairs, qa_pair, web_context, provider,
                   gemini_response, index, initialized, model_available,
                   gemini_connected, requests, study_vars>>

\* step 6, after the record: qdrant_service.store_qa_embedding, awaited inside
\* the try of _store_new_qa_pair
StoreQaEmbedding ==
    /\ pc = "store_index"
    /\ \E qdrant_ok \in BOOLEAN :
         LET type_error == call_raises_TypeError(store_qa_embedding_keywords,
                                                 store_qa_embedding_parameters)
         IN  /\ calls' = [calls EXCEPT !.index_write = @ + 1]
             /\ index' = IF ~type_error /\ qdrant_ok
                         THEN index \cup {[qa_id |-> NewQaId(requests),
                                           answer |-> None, is_variant |-> FALSE]}
                         ELSE index
             /\ IF type_error /\ store_new_qa_pair_except = "raise"
                THEN /\ InternalError
                     /\ UNCHANGED processing_steps
                ELSE /\ processing_steps' =
                            Append(processing_steps,
                                   IF type_error THEN "storage_failed"
                                   ELSE "answer_stored")
                     /\ pc' = "variants"
                     /\ UNCHANGED result
    /\ UNCHANGED <<question, normalized_question, question_embedding, scoring,
                   similar_qa_pairs, qa_pair, web_context, provider,
                   gemini_response, store, initialized, model_available,
                   gemini_connected, requests, study_vars>>

\* steps 7 and 8: _generate_and_store_variants, awaited, then the response
GenerateAndStoreVariants ==
    /\ pc = "variants"
    /\ \E n \in 1..max_variants_to_generate :
       \E embedded \in 0..n :
         LET type_error == call_raises_TypeError(store_qa_embedding_keywords,
                                                 store_qa_embedding_parameters)
         IN  /\ calls' = [calls EXCEPT
                             !.variant = @ + (IF gemini_connected THEN 1 ELSE 0),
                             !.variant_embed = @ + n,
                             !.variant_write = @ + embedded]
             /\ index' = IF type_error THEN index
                         ELSE index \cup {[qa_id |-> VariantQaId(requests, i),
                                           answer |-> None, is_variant |-> TRUE] :
                                          i \in 1..embedded}
    /\ processing_steps' = Append(processing_steps, "variants_generated")
    /\ Finish(response_after_generation("generated_answer", web_context,
                                        HasStep("answer_stored")))
    /\ UNCHANGED <<question, normalized_question, question_embedding, scoring,
                   similar_qa_pairs, qa_pair, web_context, provider,
                   gemini_response, store, initialized, model_available,
                   gemini_connected, requests, study_vars>>

-----------------------------------------------------------------------------
(* The service *)

Init ==
    /\ RequestIdle
    /\ store \in SUBSET CuratedRecords
    /\ index \in SUBSET KnowledgeBase
    /\ model_available \in BOOLEAN
    /\ gemini_connected \in BOOLEAN
    /\ StudiesOff

Next ==
    \/ \E q \in RawQuestions : Start(q)
    \/ Embed
    \/ Search
    \/ Decide
    \/ WebContext
    \/ Generate
    \/ StoreNewQaPair
    \/ StoreQaEmbedding
    \/ GenerateAndStoreVariants

Spec == Init /\ [][Next]_vars

-----------------------------------------------------------------------------
(* The normalizer on its own: _normalize_question applied once and twice *)

NormInit ==
    /\ NormRestOff
    /\ norm_pc = "input"
    /\ norm_in \in TextsUpTo(MaxLen)
    /\ norm_once = <<>>
    /\ norm_twice = <<>>

NormalizeOnce ==
    /\ norm_pc = "input"
    /\ norm_once' = normalize_question(norm_in)
    /\ norm_pc' = "once"
    /\ UNCHANGED <<norm_in, norm_twice, norm_rest>>

NormalizeTwice ==
    /\ norm_pc = "once"
    /\ norm_twice' = normalize_question(norm_once)
    /\ norm_pc' = "twice"
    /\ UNCHANGED <<norm_in, norm_once, norm_rest>>

NormNext ==
    \/ NormalizeOnce
    \/ NormalizeTwice

NormSpec == NormInit /\ [][NormNext]_vars

-----------------------------------------------------------------------------
(* The variant stage on its own: GeminiService.generate_question_variants   *)
(* and the loop of _generate_and_store_variants.  A text is a token: "q" is *)
(* the original question, "p1" another paraphrase, "f<n>" the question      *)
(* behind the n-th fallback prefix, "short" a line of at most 10            *)
(* characters, "" a blank line.                                             *)

\* lines the provider may answer with
ResponseLines == {"", "short", "q", "p1", "f1"}

\* prefixes the question may start with: none, "What is", "How"
LeadingPrefixes == {0, 1, 4}

\* number of entries of english_prefixes / arabic_prefixes
fallback_prefixes == 8

LinesUpTo(n) == UNION {[1..k -> ResponseLines] : k \in 0..n}

\* f"{prefix} {question}"
prefixed(p) == "f" \o ToString(p)

\* seen / unique_variants of _generate_fallback_variants
RECURSIVE unique_variants(_, _)
unique_variants(seq, seen) ==
    IF seq = <<>> THEN <<>>
    ELSE IF Head(seq) \in seen THEN unique_variants(Tail(seq), seen)
    ELSE <<Head(seq)>> \o unique_variants(Tail(seq), seen \cup {Head(seq)})

\* GeminiService._generate_fallback_variants
generate_fallback_variants(leading, num_variants) ==
    LET taken == Min(num_variants, fallback_prefixes)
        raw == [p \in 1..taken |->
                   IF leading # p THEN prefixed(p)
                   ELSE prefixed(IF p = 1 THEN 2 ELSE 1)]
        uniq == unique_variants(raw, {})
    IN  SubSeq(uniq, 1, Min(num_variants, Len(uniq)))

\* GeminiService._parse_variants_from_response: blank lines and lines of at
\* most 10 characters are dropped, the first num_variants others are kept
RECURSIVE parse_variants_from_response(_, _)
parse_variants_from_response(lines, num_variants) ==
    IF lines = <<>> \/ num_variants = 0 THEN <<>>
    ELSE IF Head(lines) \in {"", "short"}
    THEN parse_variants_from_response(Tail(lines), num_variants)
    ELSE <<Head(lines)>>
         \o parse_variants_from_response(Tail(lines), num_variants - 1)

\* GeminiService.generate_question_variants
generate_question_variants(provider_state, lines, leading, num_variants) ==
    IF provider_state # "text" \/ lines = <<>>
    THEN generate_fallback_variants(leading, num_variants)
    ELSE LET parsed == parse_variants_from_response(lines, num_variants)
         IN  IF Len(parsed) >= num_variants
             THEN SubSeq(parsed, 1, num_variants)
             ELSE parsed \o generate_fallback_variants(
                                leading, num_variants - Len(parsed))

VariantInit ==
    /\ VariantRestOff
    /\ variant_pc = "start"
    /\ variant_provider \in {"not_connected", "raise", "text"}
    /\ response_text \in
           IF variant_provider = "text" THEN LinesUpTo(MaxLines) ELSE {<<>>}
    /\ starts_with \in LeadingPrefixes
    /\ variants = <<>>
    /\ embedded_variants = <<>>
    /\ written_variants = <<>>

\* variants = await gemini_service.generate_question_variants(...)
GenerateQuestionVariants ==
    /\ variant_pc = "start"
    /\ variants' = generate_question_variants(variant_provider, response_text,
                                              starts_with, max_variants_to_generate)
    /\ variant_pc' = "loop"
    /\ UNCHANGED <<variant_provider, response_text, starts_with,
                   embedded_variants, written_variants, variant_rest>>

\* one turn of `for variant in variants`: the embedding, then the index write
StoreVariant ==
    /\ variant_pc = "loop"
    /\ Len(embedded_variants) < Len(variants)
    /\ LET variant == variants[Len(embedded_variants) + 1]
       IN  \E variant_embedding \in {"vector", None} :
             /\ embedded_variants' = Append(embedded_variants, variant)
             /\ written_variants' =
                    IF variant_embedding # None
                    THEN Append(written_variants, variant)
                    ELSE written_variants
    /\ UNCHANGED <<variant_pc, variant_provider, response_text, starts_with,
                   variants, variant_rest>>

VariantNext ==
    \/ GenerateQuestionVariants
    \/ StoreVariant

VariantSpec == VariantInit /\ [][VariantNext]_vars

-----------------------------------------------------------------------------
(* The choice of the top match on its own: the list search_similar_questions *)
(* builds from the hits of client.search, taken in whatever order the index  *)
(* returned them, and best_match = similar_qa_pairs[0]                       *)

\* a hit of client.search: it scores at least score_threshold
ReturnedHits ==
    [qa_id : {"q1", "q2"},
     similarity_score : {sc \in Scores : sc >= semantic_search_threshold}]

HitsUpTo(n) == UNION {[1..k -> ReturnedHits] : k \in 0..n}

\* for hit in search_result: results.append({...})
build_results(hits) == [i \in DOMAIN hits |-> hits[i]]

SortInit ==
    /\ SortRestOff
    /\ sort_pc = "search"
    /\ search_result \in HitsUpTo(MaxHits)
    /\ results = <<>>
    /\ top_match = NoMatch

SearchSimilarQuestions ==
    /\ sort_pc = "search"
    /\ results' = build_results(search_result)
    /\ sort_pc' = "searched"
    /\ UNCHANGED <<search_result, top_match, sort_rest>>

\* if similar_qa_pairs: best_match = similar_qa_pairs[0]
TakeBestMatch ==
    /\ sort_pc = "searched"
    /\ top_match' = IF results # <<>> THEN results[1] ELSE NoMatch
    /\ sort_pc' = IF results = <<>> THEN "miss"
                  ELSE IF is_high_quality(results[1]) THEN "high_quality"
                  ELSE "low_quality"
    /\ UNCHANGED <<search_result, results, sort_rest>>

SortNext ==
    \/ SearchSimilarQuestions
    \/ TakeBestMatch

SortSpec == SortInit /\ [][SortNext]_vars

-----------------------------------------------------------------------------
(* IntelligentQAService.check_gemini_quota on its own *)

\* words the except branch of check_gemini_quota looks for in str(e)
ErrorTokens == {"429", "quota", "401", "403"}

\* messages of the exception behind each failing outcome of the provider
ErrorStrings(outcome) ==
    IF outcome = "rate_limited"
    THEN {m \in SUBSET ErrorTokens : "429" \in m \/ "quota" \in m}
    ELSE IF outcome = "unauthorized"
    THEN {m \in SUBSET ErrorTokens : "401" \in m \/ "403" \in m}
    ELSE {{}}

\* try: await answer_question(...); return available / except: by str(e)
check_gemini_quota(response, message) ==
    IF ~response.raised THEN "available"
    ELSE IF "429" \in message /\ "quota" \in message THEN "quota_exceeded"
    ELSE IF "401" \in message \/ "403" \in message THEN "unauthorized"
    ELSE "error"

QuotaInit ==
    /\ QuotaRestOff
    /\ quota_pc = "probe"
    /\ probe_connected \in BOOLEAN
    /\ probe_outcome \in ProviderOutcomes
    /\ error_str \in ErrorStrings(probe_outcome)
    /\ test_response = NoAnswer
    /\ quota_status = None

\* test_response = await gemini_service.answer_question("test", ...)
ProbeAnswerQuestion ==
    /\ quota_pc = "probe"
    /\ test_response' = answer_question(probe_connected, <<probe_outcome>>)
    /\ quota_pc' = "answered"
    /\ UNCHANGED <<probe_connected, probe_outcome, error_str, quota_status,
                   quota_rest>>

CheckGeminiQuota ==
    /\ quota_pc = "answered"
    /\ quota_status' = check_gemini_quota(test_response, error_str)
    /\ quota_pc' = "reported"
    /\ UNCHANGED <<probe_connected, probe_outcome, error_str, test_response,
                   quota_rest>>

QuotaNext ==
    \/ ProbeAnswerQuestion
    \/ CheckGeminiQuota

QuotaSpec == QuotaInit /\ [][QuotaNext]_vars

-----------------------------------------------------------------------------
(* QdrantService.store_qa_embedding on its own.  A dictionary is a function *)
(* from its keys to their values.                                           *)

PayloadKeys == {"qa_id", "question", "language"}
PayloadValues == {"a", "b"}

Dicts == UNION {[keys -> PayloadValues] : keys \in SUBSET PayloadKeys}

\* dict.update(other)
dict_update(d, other) ==
    [k \in DOMAIN d \cup DOMAIN other |->
        IF k \in DOMAIN other THEN other[k] ELSE d[k]]

\* payload = metadata or {}: the caller's own object unless it is None or empty
payload_is_callers_dict(given, d) == given /\ DOMAIN d # {}

\* payload.update({"qa_id": qa_id, "question": question})
build_payload(d, qa_id, q) ==
    dict_update(d, [k \in {"qa_id", "question"} |->
                       IF k = "qa_id" THEN qa_id ELSE q])

PayloadInit ==
    /\ PayloadRestOff
    /\ payload_pc = "call"
    /\ metadata_given \in BOOLEAN
    /\ provided \in IF metadata_given THEN Dicts ELSE {EmptyDict}
    /\ metadata = provided
    /\ arg_qa_id \in PayloadValues
    /\ arg_question \in PayloadValues
    /\ guards_pass \in BOOLEAN
    /\ stored_payload = EmptyDict
    /\ returned = None

StoreQaEmbeddingCall ==
    /\ payload_pc = "call"
    /\ payload_pc' = "returned"
    /\ IF ~guards_pass
       THEN /\ returned' = "False"
            /\ UNCHANGED <<metadata, stored_payload>>
       ELSE \E upsert_ok \in BOOLEAN :
              LET payload == build_payload(metadata, arg_qa_id, arg_question)
              IN  /\ metadata' = IF payload_is_callers_dict(metadata_given, metadata)
                                 THEN payload ELSE metadata
                  /\ stored_payload' = IF upsert_ok THEN payload ELSE stored_payload
                  /\ returned' = IF upsert_ok THEN "True" ELSE "False"
    /\ UNCHANGED <<metadata_given, provided, arg_qa_id, arg_question,
                   guards_pass, payload_rest>>

PayloadNext == StoreQaEmbeddingCall

PayloadSpec == PayloadInit /\ [][PayloadNext]_vars

-----------------------------------------------------------------------------
(* EmbeddingService.generate_embedding on its own, one API call per step *)

CallPlans == [1..MaxCalls -> EmbeddingOutcomes]

EmbedInit ==
    /\ EmbedRestOff
    /\ embed_pc = "call"
    /\ embed_available \in BOOLEAN
    /\ text_given \in BOOLEAN
    /\ embed_plan \in CallPlans
    /\ attempt = 0
    /\ embed_calls = 0
    /\ embedding_data = NoEmbedding

\* the two early returns: the hash-based vector, and None for an empty text
EnterGenerateEmbedding ==
    /\ embed_pc = "call"
    /\ IF ~embed_available
       THEN /\ embedding_data' = [vector |-> "vector", call |-> 0]
            /\ embed_pc' = "returned"
       ELSE IF ~text_given
       THEN /\ embedding_data' = [vector |-> None, call |-> 0]
            /\ embed_pc' = "returned"
       ELSE /\ embed_pc' = "loop"
            /\ UNCHANGED embedding_data
    /\ UNCHANGED <<embed_available, text_given, embed_plan, attempt,
                   embed_calls, embed_rest>>

\* one turn of `for attempt in range(max_retries)`: genai.embed_content
EmbedContent ==
    /\ embed_pc = "loop"
    /\ embed_calls < MaxCalls
    /\ embed_calls' = embed_calls + 1
    /\ IF embedding_extracted(embed_plan[embed_calls + 1])
       THEN /\ embedding_data' = [vector |-> "vector", call |-> embed_calls + 1]
            /\ embed_pc' = "returned"
            /\ UNCHANGED attempt
       ELSE IF retry_allowed(attempt)
       THEN /\ attempt' = attempt + 1
            /\ UNCHANGED <<embedding_data, embed_pc>>
       ELSE /\ embedding_data' = [vector |-> None, call |-> 0]
            /\ embed_pc' = "returned"
            /\ UNCHANGED attempt
    /\ UNCHANGED <<embed_available, text_given, embed_plan, embed_rest>>

EmbedNext ==
    \/ EnterGenerateEmbedding
    \/ EmbedContent

\* every call of the embedding API returns or raises
EmbedSpec == EmbedInit /\ [][EmbedNext]_vars /\ WF_vars(EmbedNext)

-----------------------------------------------------------------------------
(* InitializationManager of main.py: start_initialization,                  *)
(* restart_initialization and the background task _initialize_system.  A    *)
(* step is the code between two awaits; start_time counts the starts.       *)

\* public methods of GeminiService that _initialize_system could call
gemini_service_methods ==
    {"is_connected", "answer_question", "generate_question_variants", "get_health"}

start_refused_never(status) == FALSE

\* if self.state["status"] == "in_progress": return
start_refused(status) == status = "in_progress"

ManagerInit ==
    /\ ManagerRestOff
    /\ init_status = "not_started"
    /\ start_time = 0
    /\ overall_progress = 0
    /\ components = PendingComponents
    /\ init_error = None
    /\ tasks = <<>>
    /\ last_op = "none"
    /\ restart_returned = None

\* the body of start_initialization; raised' tells whether it raised
start_initialization_body(created) ==
    IF start_refused(init_status)
    THEN UNCHANGED <<init_status, start_time, overall_progress, components,
                     init_error, tasks>>
    ELSE /\ start_time' = start_time + 1
         /\ overall_progress' = 0
         /\ components' = PendingComponents
         /\ IF created
            THEN /\ init_status' = "in_progress"
                 /\ init_error' = None
                 /\ tasks' = Append(tasks, "created")
            ELSE /\ init_status' = "failed"
                 /\ init_error' = "create_task"
                 /\ UNCHANGED tasks

StartInitialization ==
    /\ start_time < MaxStarts
    /\ Len(tasks) < MaxTasks
    /\ \E created \in BOOLEAN : start_initialization_body(created)
    /\ last_op' = "start"
    /\ UNCHANGED <<restart_returned, init_rest>>

RestartInitialization ==
    /\ start_time < MaxStarts
    /\ Len(tasks) < MaxTasks
    /\ last_op' = "restart"
    /\ IF init_status = "in_progress"
       THEN /\ restart_returned' = "False"
            /\ UNCHANGED <<init_status, start_time, overall_progress,
                           components, init_error, tasks>>
       ELSE \E created \in BOOLEAN :
              /\ start_initialization_body(created)
              /\ restart_returned' = IF created THEN "True" ELSE "False"
    /\ UNCHANGED init_rest

\* _initialize_system up to `await intelligent_qa_service.initialize_system()`
TaskBegin(i) ==
    /\ tasks[i] = "created"
    /\ tasks' = [tasks EXCEPT ![i] = "awaiting"]
    /\ components' = [components EXCEPT !["knowledge_base"] = "in_progress"]
    /\ last_op' = "task"
    /\ UNCHANGED <<init_status, start_time, overall_progress, init_error,
                   restart_returned, init_rest>>

\* _initialize_system after that await, to its end: the four checks; the call
\* of gemini_service.is_available raises AttributeError when the method is
\* missing, and the except branch sets the status failed
TaskFinish(i) ==
    /\ tasks[i] = "awaiting"
    /\ tasks' = SubSeq(tasks, 1, i - 1) \o SubSeq(tasks, i + 1, Len(tasks))
    /\ last_op' = "task"
    /\ \E qdrant_healthy \in BOOLEAN, embedding_healthy \in BOOLEAN,
          gemini_healthy \in BOOLEAN :
         LET mark(ok) == IF ok THEN "completed" ELSE "failed"
             raises == "is_available" \notin gemini_service_methods
             checked == [c \in ComponentNames |->
                            IF c = "knowledge_base" THEN mark(initialize_system_succeeds)
                            ELSE IF c = "qdrant" THEN mark(qdrant_healthy)
                            ELSE IF c = "embedding_service" THEN mark(embedding_healthy)
                            ELSE IF raises THEN "in_progress"
                            ELSE mark(gemini_healthy)]
             failed_components == Cardinality({c \in ComponentNames : checked[c] = "failed"})
         IN  /\ components' = checked
             /\ overall_progress' = IF raises THEN 75 ELSE 100
             /\ init_status' = IF raises THEN "failed"
                               ELSE IF failed_components < Cardinality(ComponentNames)
                               THEN "completed" ELSE "failed"
             /\ init_error' = IF raises THEN "AttributeError" ELSE init_error
    /\ UNCHANGED <<start_time, restart_returned, init_rest>>

ManagerNext ==
    \/ StartInitialization
    \/ RestartInitialization
    \/ \E i \in 1..Len(tasks) : TaskBegin(i)
    \/ \E i \in 1..Len(tasks) : TaskFinish(i)

ManagerSpec == ManagerInit /\ [][ManagerNext]_vars

-----------------------------------------------------------------------------
(* UserSession and SessionManagementService.  A row of user_sessions is a   *)
(* record; the clock counts periods of 24 hours, the default lifetime of a  *)
(* session and of an extension; tokens are drawn from a small set.          *)

\* expires_hours of create_session and duration_hours of extend_session,
\* in periods of 24 hours
default_hours == 1

\* the session under study and one other session
SessionIds == {1, 2}
SessionTokens == {"a1", "a2", "a3"}
RefreshTokens == {"r1", "r2", "r3"}

\* UserSession.is_expired
is_expired(row, clock) == clock > row.expires_at

\* UserSession.is_valid
is_valid(row, clock) == row.is_active /\ ~row.is_revoked /\ ~is_expired(row, clock)

\* UserSession.extend_session
extend_session(row, clock, duration_hours) ==
    [row EXCEPT !.expires_at = clock + duration_hours, !.last_activity_at = clock]

\* UserSession.revoke_session
revoke_session(row, clock) ==
    [row EXCEPT !.is_active = FALSE, !.is_revoked = TRUE, !.revoked_at = clock]

\* UserSession.update_activity
update_activity(row, clock) == [row EXCEPT !.last_activity_at = clock]

row_selected_by_token_only(row, clock) == TRUE

\* the where-clause of both lookups, apart from the token column
row_selected(row, clock) ==
    /\ row.is_active
    /\ ~row.is_revoked
    /\ row.expires_at > clock

\* select ... where session_token == token and the where-clause
select_by_token(rows, clock, token) ==
    {i \in DOMAIN rows : rows[i].session_token = token /\ row_selected(rows[i], clock)}

select_by_refresh_token(rows, clock, token) ==
    {i \in DOMAIN rows : rows[i].refresh_token = token /\ row_selected(rows[i], clock)}

\* the one row of a set of one, None of the empty set
scalar_one_or_none(found) == IF found = {} THEN NoSession ELSE CHOOSE i \in found : TRUE

\* the unique constraints on session_token and refresh_token
tokens_unique(rows) ==
    \A i, j \in DOMAIN rows :
       i # j => /\ rows[i].session_token # rows[j].session_token
                /\ rows[i].refresh_token # rows[j].refresh_token

\* UserSession.create_session, after commit and refresh
create_session(access_token, refresh, clock, expires_hours) ==
    [session_token |-> access_token, refresh_token |-> refresh,
     is_active |-> TRUE, is_revoked |-> FALSE,
     expires_at |-> clock + expires_hours, last_activity_at |-> clock,
     revoked_at |-> NoTime]

SessionInit ==
    /\ SessionRestOff
    /\ utcnow = 0
    /\ user_sessions = [i \in SessionIds |->
                          create_session(IF i = 1 THEN "a1" ELSE "a2",
                                         IF i = 1 THEN "r1" ELSE "r2", 0,
                                         default_hours)]
    /\ revoked_once = {}
    /\ session_op = "none"
    /\ lookup_token = None
    /\ returned_session = NoSession

\* time passes
TimePasses ==
    /\ utcnow < MaxTime
    /\ utcnow' = utcnow + 1
    /\ session_op' = "clock"
    /\ lookup_token' = None
    /\ returned_session' = NoSession
    /\ UNCHANGED <<user_sessions, revoked_once, session_rest>>

GetSessionByToken ==
    \E token \in SessionTokens :
       LET found == scalar_one_or_none(select_by_token(user_sessions, utcnow, token))
       IN  /\ session_op' = "get_session_by_token"
           /\ lookup_token' = token
           /\ returned_session' = found
           /\ user_sessions' =
                 IF found = NoSession THEN user_sessions
                 ELSE [user_sessions EXCEPT ![found] = update_activity(@, utcnow)]
           /\ UNCHANGED <<utcnow, revoked_once, session_rest>>

\* SessionManagementService.revoke_session on a row the caller holds
RevokeSession ==
    \E i \in SessionIds :
       /\ user_sessions' = [user_sessions EXCEPT ![i] = revoke_session(@, utcnow)]
       /\ revoked_once' = revoked_once \cup {i}
       /\ session_op' = "revoke_session"
       /\ lookup_token' = None
       /\ returned_session' = NoSession
       /\ UNCHANGED <<utcnow, session_rest>>

\* SessionManagementService.extend_session on a row the caller holds
ExtendSession ==
    \E i \in SessionIds :
       /\ user_sessions' = [user_sessions EXCEPT ![i] =
                               extend_session(@, utcnow, default_hours)]
       /\ session_op' = "extend_session"
       /\ lookup_token' = None
       /\ returned_session' = NoSession
       /\ UNCHANGED <<utcnow, revoked_once, session_rest>>

\* UserSession.update_activity on a row the caller holds, then commit
UpdateActivity ==
    \E i \in SessionIds :
       /\ user_sessions' = [user_sessions EXCEPT ![i] = update_activity(@, utcnow)]
       /\ session_op' = "update_activity"
       /\ lookup_token' = None
       /\ returned_session' = NoSession
       /\ UNCHANGED <<utcnow, revoked_once, session_rest>>

\* a commit that breaks a unique constraint raises; the method returns False
\* and the rows stay as they were
UpdateSessionTokens ==
    \E old_refresh_token \in RefreshTokens, new_access_token \in SessionTokens,
       new_refresh_token \in RefreshTokens :
       LET found == scalar_one_or_none(
                       select_by_refresh_token(user_sessions, utcnow, old_refresh_token))
           updated == [user_sessions EXCEPT ![found] =
                          update_activity([@ EXCEPT !.session_token = new_access_token,
                                                    !.refresh_token = new_refresh_token],
                                          utcnow)]
       IN  /\ user_sessions' = IF found # NoSession /\ tokens_unique(updated)
                               THEN updated ELSE user_sessions
           /\ session_op' = "update_session_tokens"
           /\ lookup_token' = old_refresh_token
           /\ returned_session' = NoSession
           /\ UNCHANGED <<utcnow, revoked_once, session_rest>>

SessionNext ==
    \/ TimePasses
    \/ GetSessionByToken
    \/ RevokeSession
    \/ ExtendSession
    \/ UpdateActivity
    \/ UpdateSessionTokens

SessionSpec == SessionInit /\ [][SessionNext]_vars

-----------------------------------------------------------------------------
(* ForgotPasswordService with the token functions of AuthService.  A token  *)
(* is the payload that jwt.encode signs; the clock counts hours; a password *)
(* is its length and the classes of character it contains.                  *)

UserIds == {1, 2}

\* timedelta(hours=1) of generate_password_reset_token and of
\* send_password_reset_email
reset_token_hours == 1

CharacterClasses == {"upper", "lower", "digit", "special"}

\* the passwords a caller may give: a strong one, one too short, one
\* without a special character, another strong one
Passwords ==
    { [length |-> 8, classes |-> CharacterClasses],
      [length |-> 7, classes |-> CharacterClasses],
      [length |-> 8, classes |-> CharacterClasses \ {"special"}],
      [length |-> 9, classes |-> CharacterClasses] }

\* AuthService.validate_password_strength
validate_password_strength(password) ==
    /\ password.length >= 8
    /\ CharacterClasses \subseteq password.classes

\* AuthService.get_password_hash
get_password_hash(password) == [hash_of |-> password]

\* AuthService.create_access_token:
\* to_encode.update({"exp": expire, "type": "access"})
create_access_token(data, expire) == [data EXCEPT !.exp = expire, !.type = "access"]

\* AuthService.generate_password_reset_token
generate_password_reset_token(user_id, clock) ==
    create_access_token([sub |-> user_id, type |-> "password_reset", exp |-> 0],
                        clock + reset_token_hours)

\* AuthService.verify_password_reset_token: TRUE when it returns the payload,
\* FALSE when jwt.decode or the check of the type raises
verify_password_reset_token(token, clock) ==
    /\ token.type \notin {"garbage", "null"}
    /\ clock <= token.exp
    /\ token.type = "password_reset"

\* the check of the stored token and its expiry in reset_password_with_token
\* and validate_reset_token
stored_token_matches(row, token, clock) ==
    ~ \/ row.password_reset_token # token
      \/ row.password_reset_token = NoToken
      \/ clock > row.password_reset_expires

\* the tokens a caller can present: those sent by e-mail and any other string
Presentable == issued \cup {Garbage}

ResetInit ==
    /\ ResetRestOff
    /\ accounts = [u \in UserIds |->
                     [password_hash |->
                         get_password_hash([length |-> 8, classes |-> CharacterClasses]),
                      password_reset_token |-> NoToken,
                      password_reset_expires |-> 0,
                      failed_login_attempts |-> 0]]
    /\ reset_clock = 0
    /\ issued = {}
    /\ reset_op = "none"
    /\ presented = NoToken
    /\ password_given = NoPassword
    /\ reset_outcome = "none"

\* an hour passes
HourPasses ==
    /\ reset_clock < MaxTime
    /\ reset_clock' = reset_clock + 1
    /\ reset_op' = "clock"
    /\ presented' = NoToken
    /\ password_given' = NoPassword
    /\ reset_outcome' = "none"
    /\ UNCHANGED <<accounts, issued, reset_rest>>

\* send_password_reset_email for the e-mail address of an active user
SendPasswordResetEmail ==
    \E u \in UserIds :
       LET reset_token == generate_password_reset_token(u, reset_clock)
       IN  /\ accounts' = [accounts EXCEPT
                             ![u].password_reset_token = reset_token,
                             ![u].password_reset_expires = reset_clock + reset_token_hours]
           /\ issued' = issued \cup {reset_token}
           /\ reset_op' = "send_password_reset_email"
           /\ presented' = NoToken
           /\ password_given' = NoPassword
           /\ reset_outcome' = "True"
           /\ UNCHANGED <<reset_clock, reset_rest>>

\* a failed log-in of a user (User.increment_failed_login)
FailedLogin ==
    \E u \in UserIds :
       /\ accounts[u].failed_login_attempts < MaxFailedLogins
       /\ accounts' = [accounts EXCEPT ![u].failed_login_attempts = @ + 1]
       /\ reset_op' = "failed_login"
       /\ presented' = NoToken
       /\ password_given' = NoPassword
       /\ reset_outcome' = "none"
       /\ UNCHANGED <<reset_clock, issued, reset_rest>>

ResetPasswordWithToken ==
    \E token \in Presentable, new_password \in Passwords :
       /\ reset_op' = "reset_password_with_token"
       /\ presented' = token
       /\ password_given' = new_password
       /\ IF ~verify_password_reset_token(token, reset_clock)
          THEN /\ reset_outcome' = "400"
               /\ UNCHANGED accounts
          ELSE IF token.sub \notin UserIds
          THEN /\ reset_outcome' = "404"
               /\ UNCHANGED accounts
          ELSE IF ~stored_token_matches(accounts[token.sub], token, reset_clock)
          THEN /\ reset_outcome' = "400"
               /\ UNCHANGED accounts
          ELSE IF ~validate_password_strength(new_password)
          THEN /\ reset_outcome' = "400"
               /\ UNCHANGED accounts
          ELSE /\ reset_outcome' = "True"
               /\ accounts' = [accounts EXCEPT
                                 ![token.sub].password_hash = get_password_hash(new_password),
                                 ![token.sub].password_reset_token = NoToken,
                                 ![token.sub].password_reset_expires = 0,
                                 ![token.sub].failed_login_attempts = 0]
       /\ UNCHANGED <<reset_clock, issued, reset_rest>>

ValidateResetToken ==
    \E token \in Presentable :
       /\ reset_op' = "validate_reset_token"
       /\ presented' = token
       /\ password_given' = NoPassword
       /\ reset_outcome' =
             IF /\ verify_password_reset_token(token, reset_clock)
                /\ token.sub \in UserIds
                /\ stored_token_matches(accounts[token.sub], token, reset_clock)
             THEN "True" ELSE "False"
       /\ UNCHANGED <<accounts, reset_clock, issued, reset_rest>>

ResetNext ==
    \/ HourPasses
    \/ SendPasswordResetEmail
    \/ FailedLogin
    \/ ResetPasswordWithToken
    \/ ValidateResetToken

ResetSpec == ResetInit /\ [][ResetNext]_vars

-----------------------------------------------------------------------------
(* Properties *)

AllCallsZeroAfterEmbedding ==
    /\ calls.search = 0
    /\ calls.lookup = 0
    /\ calls.web = 0
    /\ calls.answer = 0
    /\ calls.variant = 0
    /\ calls.variant_embed = 0
    /\ calls.store_write = 0
    /\ calls.index_write = 0
    /\ calls.variant_write = 0

TopIsHighQuality ==
    /\ similar_qa_pairs # <<>>
    /\ similar_qa_pairs[1].similarity_score >= quality_threshold

TopInBand ==
    /\ similar_qa_pairs # <<>>
    /\ similar_qa_pairs[1].similarity_score >= semantic_search_threshold
    /\ similar_qa_pairs[1].similarity_score < quality_threshold

StoreHolds(qa_id) == \E r \in store : r.qa_id = qa_id

\* C1: when the top match scores at least quality_threshold and the store
\* returns the record of its qa_id, the request ends with the stored
\* answer_text, source vector_search (the cache source), and no call to the
\* completion provider was made, neither for an answer nor for variants.
C1_CacheHitReturnsStoredAnswer ==
    (TopIsHighQuality /\ pc # "decide" /\ qa_pair.state # "raise"
         /\ StoreHolds(similar_qa_pairs[1].qa_id))
    => /\ pc = "done"
       /\ result.status = "success"
       /\ result.source = "vector_search"
       /\ \A r \in store :
             r.qa_id = similar_qa_pairs[1].qa_id => result.answer = r.answer_text
       /\ calls.answer = 0
       /\ calls.variant = 0
       /\ provider = <<>>

C1_Witness ==
    /\ pc = "done"
    /\ TopIsHighQuality
    /\ result.source = "vector_search"
    /\ result.answer = "stored_q1"
    /\ calls.lookup = 1

\* C2: quality_threshold is strictly above semantic_search_threshold, and a
\* request whose top match scores in [semantic_search_threshold,
\* quality_threshold) takes the cache-miss path without a store lookup, never
\* returns a cache hit, and reaches the completion provider unless the web
\* context fetch raised first.
C2_BandIsCacheMiss ==
    /\ quality_threshold > semantic_search_threshold
    /\ (TopInBand /\ pc # "decide")
       => /\ HasStep("semantic_search_miss_or_low_quality")
          /\ calls.lookup = 0
          /\ result.source # "vector_search"
          /\ pc \in {"web_context", "generate", "store", "store_index",
                  "variants", "done"}
          /\ (pc = "done" /\ web_context # "raise" /\ gemini_connected)
             => calls.answer = 1

C2_Witness ==
    /\ pc = "done"
    /\ TopInBand
    /\ StoreHolds(similar_qa_pairs[1].qa_id)
    /\ calls.answer = 1
    /\ result.source = "gemini_api"

\* C3: when every index entry scores below semantic_search_threshold against
\* the query, the search returns no match, the request records no search hit,
\* makes no store lookup and never returns a cached answer; every match the
\* search does return scores at least semantic_search_threshold.
C3_NoCacheHitBelowSearchThreshold ==
    /\ \A i \in 1..Len(similar_qa_pairs) :
          similar_qa_pairs[i].similarity_score >= semantic_search_threshold
    /\ (calls.search > 0
        /\ \A e \in DOMAIN scoring : scoring[e] < semantic_search_threshold)
       => /\ similar_qa_pairs = <<>>
          /\ ~HasStep("semantic_search_hit")
          /\ calls.lookup = 0
          /\ result.source \notin {"vector_search", "vector_search_fallback"}

C3_Witness ==
    /\ pc = "done"
    /\ calls.search = 1
    /\ DOMAIN scoring # {}
    /\ \A e \in DOMAIN scoring : scoring[e] < semantic_search_threshold
    /\ result.source = "gemini_api"

\* C4: when the top match scores at least quality_threshold and the store has
\* no record for its qa_id, the request takes the cache-miss path: no result
\* is produced by the lookup, an error can only come from a later stage (web
\* context raised, or no answer generated), and a generated answer is
\* returned when those stages succeed.
C4_DanglingReferenceFallsThrough ==
    (TopIsHighQuality /\ qa_pair.state = None)
    => /\ HasStep("semantic_search_miss_or_low_quality")
       /\ pc \in {"web_context", "generate", "store", "store_index",
                  "variants", "done"}
       /\ result.source # "vector_search"
       /\ result.status = "error"
          => (web_context = "raise" \/ gemini_response = None)
       /\ (pc = "done" /\ web_context # "raise" /\ gemini_response = "answer")
          => result.source = "gemini_api"

C4_Witness ==
    /\ pc = "done"
    /\ TopIsHighQuality
    /\ qa_pair.state = None
    /\ ~StoreHolds(similar_qa_pairs[1].qa_id)
    /\ result.source = "gemini_api"

\* C5: a request on the cache-miss path whose provider fails transiently on
\* its first two calls and succeeds on the third ends with a successful
\* generated result, after at most 3 generation attempts.
C5_TransientTwiceThenSuccess ==
    (pc = "done" /\ gemini_connected /\ Len(provider) = 3
         /\ provider[1] \in Transient /\ provider[2] \in Transient
         /\ provider[3] = "ok")
    => /\ result.status = "success"
       /\ result.source = "gemini_api"
       /\ calls.answer <= 3

\* C6: when the first call of the completion provider fails on authorization
\* or on rate limit, the request makes exactly one answer-generation call and
\* no other call to the provider.
C6_NoRetryOnAuthOrQuota ==
    (provider # <<>> /\ gemini_connected
         /\ provider[1] \in {"rate_limited", "unauthorized"})
    => /\ calls.answer = 1
       /\ calls.variant = 0

C6_Witness ==
    /\ pc = "done"
    /\ provider = <<"rate_limited">>
    /\ gemini_connected
    /\ calls.answer = 1

GenerationFailed == provider # <<>> /\ gemini_response # "answer"

SalvageAvailable ==
    /\ similar_qa_pairs # <<>>
    /\ similar_qa_pairs[1].similarity_score >= salvage_threshold
    /\ StoreHolds(similar_qa_pairs[1].qa_id)

\* C7: when answer generation fails, the request ends with the salvage
\* answer of the best match if one scores at least the salvage threshold, and
\* otherwise with a generation or quota error.
C7_SalvageBeforeAbort ==
    (pc = "done" /\ GenerationFailed /\ qa_pair.state # "raise")
    => IF SalvageAvailable
       THEN /\ result.status = "success"
            /\ result.source = "vector_search_fallback"
            /\ \A r \in store :
                  r.qa_id = similar_qa_pairs[1].qa_id => result.answer = r.answer_text
       ELSE /\ result.status = "error"
            /\ result.reason \in {"generation_failure", "quota_exceeded"}

\* C8: when the embedding service returns no vector, the request ends with
\* the embedding_failure error and has invoked neither the index search, the
\* store, the web context, the completion provider nor any write.
C8_EmbeddingFailureIsTerminal ==
    (pc \notin {"idle", "embedding"} /\ question_embedding = None)
    => /\ pc = "done"
       /\ result = format_error("embedding_failure")
       /\ AllCallsZeroAfterEmbedding

C8_Witness ==
    /\ pc = "done"
    /\ question_embedding = None
    /\ calls.embed_api = max_retries
    /\ result.reason = "embedding_failure"

\* C9: a question that is empty after trimming is rejected with a validation
\* failure, and no embedding, search, generation or persistence step is made
\* for it.
C9_BlankInputRejected ==
    (pc # "idle" /\ strip(question) = <<>>)
    => /\ question_embedding = None
       /\ calls.embed_api = 0
       /\ AllCallsZeroAfterEmbedding
       /\ pc = "done" => result.reason = "validation_error"

NoDoubleSpace(s) ==
    \A i \in 1..Len(s) :
       /\ s[i] \in Whitespace => s[i] = "SP"
       /\ (i < Len(s) /\ s[i] \in Whitespace) => s[i + 1] \notin Whitespace

\* C10: normalizing a normalized question changes nothing, and a normalized
\* question is trimmed, has single spaces only and ends with terminal
\* punctuation.
C10_NormalizeIdempotent ==
    /\ norm_pc = "twice" => norm_twice = norm_once
    /\ norm_pc # "input"
       => /\ endswith_terminal(norm_once)
          /\ strip(norm_once) = norm_once
          /\ NoDoubleSpace(norm_once)

C10_Witness ==
    /\ norm_pc = "twice"
    /\ norm_in # <<>>
    /\ norm_once # norm_in
    /\ ~endswith_terminal(norm_in)

IndexHolds(qa_id) == \E e \in index : e.qa_id = qa_id

GeneratedResponse ==
    /\ result.status = "success"
    /\ result.answer = "generated_answer"
    /\ result.source = "gemini_api"

\* C11: once the provider has returned an answer, whatever the store write,
\* the index write and the variant stage do, the request ends with status
\* success, the generated answer and source gemini_api (the generated source).
C11_PersistenceFailureKeepsResponse ==
    (pc = "done" /\ gemini_response = "answer") => GeneratedResponse

C11_Witness ==
    /\ pc = "done"
    /\ gemini_response = "answer"
    /\ HasStep("storage_failed")
    /\ ~StoreHolds(NewQaId(requests))
    /\ calls.variant_write > 0
    /\ \A e \in index : ~e.is_variant
    /\ GeneratedResponse

BestScoreBelowSearchThreshold ==
    /\ calls.search = 1
    /\ DOMAIN scoring # {}
    /\ \A e \in DOMAIN scoring : scoring[e] < semantic_search_threshold

\* C12: a finished request whose best indexed score is below the search
\* threshold and whose provider is connected and reported no failure has
\* source gemini_api, exactly one provider call for the answer, exactly one
\* new QARecord in the store and at least one variant embedding attempted.
C12_MissGeneratesOnceAndPersists ==
    (/\ pc = "done"
     /\ BestScoreBelowSearchThreshold
     /\ gemini_connected
     /\ provider \in {<<>>, <<"ok">>})
    => /\ result.source = "gemini_api"
       /\ calls.answer = 1
       /\ calls.store_write = 1
       /\ StoreHolds(NewQaId(requests))
       /\ calls.variant_embed >= 1

\* C13: a request whose Context Enrichment returned nothing or raised still
\* reaches the generation stage, and with a connected, succeeding provider it
\* returns the generated answer.
C13_EnrichmentFailureDoesNotBreak ==
    (pc = "done" /\ calls.web = 1 /\ web_context \in {None, "raise"})
    => /\ provider # <<>>
       /\ (gemini_connected /\ provider = <<"ok">>) => GeneratedResponse

C15_ResponseBeforeVariants ==
    pc = "variants" => GeneratedResponse

IndexResolves == \A e \in index : StoreHolds(e.qa_id)

GenericFailureReasons == {"internal_error", "generation_failure"}

\* C17: a request that failed because the provider answered rate_limited or
\* unauthorized reports a reason that is not one of the reasons of a generic
\* generation failure.
C17_QuotaAndAuthAreDistinctKinds ==
    (/\ pc = "done"
     /\ gemini_connected
     /\ provider # <<>>
     /\ result.status = "error")
    => (provider[1] \in {"rate_limited", "unauthorized"}
        => result.reason \notin GenericFailureReasons)

\* C18: the index write of a new pair is attempted only after the store write
\* of the same request was made and left the QARecord in the store.
C18_StoreWriteBeforeIndexWrite ==
    /\ pc = "store_index"
       => /\ calls.store_write = 1
          /\ calls.index_write = 0
          /\ StoreHolds(NewQaId(requests))
    /\ calls.index_write > 0
       => /\ calls.store_write = 1
          /\ StoreHolds(NewQaId(requests))

C18_Witness ==
    /\ pc = "variants"
    /\ calls.store_write = 1
    /\ calls.index_write = 1
    /\ StoreHolds(NewQaId(requests))

\* C19: after an index write that left no entry for the new qa_id, the
\* QARecord is still in the store, the request goes on to the variant stage
\* and ends with the generated answer, not with an error.
C19_IndexFailureKeepsRecord ==
    (calls.index_write = 1 /\ ~IndexHolds(NewQaId(requests)))
    => /\ StoreHolds(NewQaId(requests))
       /\ pc \in {"variants", "done"}
       /\ pc = "done" => GeneratedResponse

C19_Witness ==
    /\ pc = "done"
    /\ calls.index_write = 1
    /\ ~IndexHolds(NewQaId(requests))
    /\ StoreHolds(NewQaId(requests))
    /\ HasStep("storage_failed")
    /\ GeneratedResponse

\* C20: every variant entry the variant stage writes is marked is_variant and
\* carries the qa_id of the QARecord of the original question.
C20_VariantsShareRecordQaId ==
    /\ \A w \in variant_write_requests(requests, calls.variant_write) :
          w.is_variant /\ w.qa_id = NewQaId(requests)
    /\ \A e \in index : e.is_variant => \E r \in store : r.qa_id = e.qa_id

Distinct(seq) == \A i, j \in 1..Len(seq) : i # j => seq[i] # seq[j]

\* C21: the texts of one batch that are embedded, and those written to the
\* index, are non-empty, differ from the original question and are pairwise
\* distinct.
C21_VariantsDistinctAndNew ==
    /\ \A i \in 1..Len(embedded_variants) : embedded_variants[i] \notin {"", "q"}
    /\ Distinct(embedded_variants)
    /\ Distinct(written_variants)

\* C22: whatever the order of the hits the index returned, the match taken as
\* the top match has the maximum similarity score of the returned matches.
C22_TopMatchIsMaximum ==
    sort_pc \in {"high_quality", "low_quality"}
    => \A i \in 1..Len(search_result) :
          top_match.similarity_score >= search_result[i].similarity_score

\* C23: once generation is over, a request whose first generated text was too
\* short or a mere apology has called the provider exactly twice.
C23_QualityFailureRetriedOnce ==
    (/\ pc \in {"store", "store_index", "variants", "done"}
     /\ gemini_connected
     /\ provider # <<>>
     /\ provider[1] \in {"short", "refusal"})
    => calls.answer = 2

\* C24: the status the quota probe reports follows the outcome of its provider
\* call: quota_exceeded when the call was rate-limited, unauthorized when it
\* was rejected, available only when the call produced an answer.
C24_ProbeFollowsProviderOutcome ==
    quota_pc = "reported"
    => /\ (probe_connected /\ probe_outcome = "rate_limited")
          => quota_status = "quota_exceeded"
       /\ (probe_connected /\ probe_outcome = "unauthorized")
          => quota_status = "unauthorized"
       /\ quota_status = "available" => test_response.response # None

\* C25: after store_qa_embedding the caller's metadata dictionary is what it
\* was at the call, and every key the caller supplied has the caller's value
\* in the stored payload.
C25_PayloadKeptAsProvided ==
    payload_pc = "returned"
    => /\ metadata = provided
       /\ returned = "True"
          => \A k \in DOMAIN provided : stored_payload[k] = provided[k]

RequestStages ==
    {"idle", "embedding", "search", "decide", "web_context", "generate",
     "store", "store_index", "variants", "done"}

\* C26: a request is always at a stage of process_question or has returned,
\* never left by an exception; what it returned is either a success with an
\* answer or an error with no answer, confidence 0 and a reason.
C26_NeverRaises ==
    /\ pc \in RequestStages
    /\ pc = "done"
       => \/ result.status = "success" /\ result.answer # None
          \/ /\ result.status = "error"
             /\ result.answer = None
             /\ result.confidence = 0
             /\ result.reason # None

C26_Witness ==
    /\ pc = "done"
    /\ web_context = "raise"
    /\ result.status = "error"
    /\ result.reason = "internal_error"
    /\ result.answer = None

\* the first of the max_retries calls that yields valid data, 0 if none does
FirstValidCall ==
    IF \E k \in 1..max_retries : embedding_extracted(embed_plan[k])
    THEN CHOOSE k \in 1..max_retries :
            /\ embedding_extracted(embed_plan[k])
            /\ \A j \in 1..(k - 1) : ~embedding_extracted(embed_plan[j])
    ELSE 0

EmbedCallsBounded ==
    /\ embed_calls <= max_retries
    /\ (embed_pc = "returned" /\ embed_available /\ text_given)
       => IF FirstValidCall # 0
          THEN /\ embedding_data = [vector |-> "vector", call |-> FirstValidCall]
               /\ embed_calls = FirstValidCall
          ELSE /\ embedding_data.vector = None
               /\ embed_calls = max_retries

\* C27: generate_embedding for a non-empty text makes at most max_retries
\* calls of the embedding API, returns the vector of the first call that
\* yields valid data, returns None once the third call has failed, and
\* returns in every run in which each call of the API returns.
C27_EmbeddingAtMostThreeCalls ==
    /\ []EmbedCallsBounded
    /\ <>(embed_pc = "returned")

C27_Witness ==
    /\ embed_pc = "returned"
    /\ embed_available
    /\ text_given
    /\ embed_calls = max_retries
    /\ embedding_data.vector = None
    /\ embed_plan[MaxCalls] = "ok"

\* C28: at most one initialization task exists at any time, and a call of
\* start_initialization or restart_initialization made while the status is
\* in_progress starts no task and leaves status, start time, progress,
\* component statuses and error as they were; restart_initialization then
\* returns False.
C28_NoSecondInitialization ==
    /\ [](Len(tasks) <= 1)
    /\ [][(init_status = "in_progress" /\ last_op' \in {"start", "restart"})
          => /\ UNCHANGED <<init_status, start_time, overall_progress,
                            components, init_error, tasks>>
             /\ last_op' = "restart" => restart_returned' = "False"]_vars

C28_Witness ==
    /\ init_status = "in_progress"
    /\ last_op = "restart"
    /\ restart_returned = "False"
    /\ tasks = <<"awaiting">>
    /\ start_time = 2

\* C29: a session on which revoke_session has run has is_active False and
\* is_revoked True ever after, is never valid again whatever extend_session,
\* update_activity or update_session_tokens do later, and is never the row
\* that get_session_by_token returns.
C29_RevokedNeverValidAgain ==
    \A i \in revoked_once :
       /\ ~user_sessions[i].is_active
       /\ user_sessions[i].is_revoked
       /\ ~is_valid(user_sessions[i], utcnow)
       /\ returned_session # i

\* a revoked session, extended after its revocation so that it has not
\* expired, is looked up by its token and not returned
C29_Witness ==
    \E i \in revoked_once :
       /\ user_sessions[i].expires_at > utcnow
       /\ user_sessions[i].last_activity_at > user_sessions[i].revoked_at
       /\ user_sessions[i].expires_at =
             user_sessions[i].last_activity_at + default_hours
       /\ session_op = "get_session_by_token"
       /\ lookup_token = user_sessions[i].session_token
       /\ returned_session = NoSession

\* C30: a reset with the token that was sent to the user, before its expiry
\* and with a strong password, succeeds, stores the hash of the new password
\* and clears the stored token and expiry (so that the same token is rejected
\* from then on); a reset that is rejected leaves the rows of the users as
\* they were.
C30_ResetTokenSingleUse ==
    [][reset_op' = "reset_password_with_token"
       => /\ \A u \in UserIds :
               (/\ presented' = accounts[u].password_reset_token
                /\ presented' \in issued
                /\ reset_clock <= accounts[u].password_reset_expires
                /\ validate_password_strength(password_given'))
               => /\ reset_outcome' = "True"
                  /\ accounts'[u].password_hash = get_password_hash(password_given')
                  /\ accounts'[u].password_reset_token = NoToken
          /\ reset_outcome' # "True" => accounts' = accounts]_vars

====
